---- MODULE Spec2Model ----
(***************************************************************************)
(* The live navigation session engine of the campus navigation backend:    *)
(* NavigationGateway (socket handlers over the activeSessions and          *)
(* clientSockets maps), NavigationService (route resolver, place lookup),  *)
(* CustomRoutesService.findFastestRoute and NavigationStateService.        *)
(*                                                                         *)
(* Coordinates.  Every coordinate of the model lies on one meridian        *)
(* (lng = Meridian); lat is counted in metres of arc from a reference      *)
(* point south of the campus.  On one meridian the haversine formula of    *)
(* calculateDirectDistance reduces to R * |lat2 - lat1| (in radians),      *)
(* which in these units is |lat2 - lat1| metres.                           *)
(*                                                                         *)
(* Asynchrony.  A handler runs atomically up to its next await on real     *)
(* I/O (places cache, custom-route store, route provider); each such       *)
(* stretch is one action.  Handlers that are suspended at an await are     *)
(* the records of the set inflight.                                        *)
(***************************************************************************)
EXTENDS Integers, Sequences, FiniteSets, TLC

\* ------------------------------------------------------------------ bounds

\* inbound events (connect, disconnect, messages) dispatched in one behaviour
MaxEvents == 4
\* handlers suspended at an await at the same time
MaxInflight == 2
\* clock ticks (one tick is half a minute)
MaxClock == 1
\* recordSessionEnd calls in one behaviour of the session history
MaxRecords == 30

\* ---------------------------------------------------------------- universe

Users == {"u1", "u2"}
Sockets == {"a1", "a2", "b1"}
NoSocket == "none"
NoSession == 0

\* payload.sub of the token each socket presents
SocketUser(s) == IF s \in {"a1", "a2"} THEN "u1" ELSE "u2"

Meridian == 1
Coord(lat) == [lat |-> lat, lng |-> Meridian]

\* the places cache, in cache order (edificio, piso, nombre)
Places ==
  << [id |-> "p1", nombre |-> "Biblioteca", latitud |-> 100, longitud |-> Meridian],
     [id |-> "p3", nombre |-> "Cafeteria", latitud |-> 150, longitud |-> Meridian],
     [id |-> "p2", nombre |-> "Pabellon", latitud |-> 300, longitud |-> Meridian] >>

PlaceIds == {Places[i].id : i \in 1..Len(Places)}
\* a destination id no place has
UnknownPlace == "p0"

\* ------------------------------------------------------------- arithmetic

Abs(x) == IF x < 0 THEN -x ELSE x
Min2(a, b) == IF a < b THEN a ELSE b
\* Math.ceil(n / d) for n >= 0, d > 0
CeilDiv(n, d) == (n + d - 1) \div d

TicksPerMinute == 2

\* ---------------------------------------------------------------- geo math

CalculateDirectDistance(c1, c2) == Abs(c2.lat - c1.lat)

\* the gateway's own copy of the haversine formula
GatewayCalculateDistance(p1, p2) == Abs(p2.lat - p1.lat)

\* Math.ceil(distancia / 83.33)
WalkingMinutes(d) == CeilDiv(d * 100, 8333)

\* a fallback that estimated the time at the pace of getNavigationUpdate
DirectMinutesAtWalkingPace(d) == CeilDiv(d * 100, 8333)

\* Math.ceil((directDistance / 1000) * 12)
DirectMinutes(d) == CeilDiv(d * 12, 1000)

\* NavigationService.calculateDirection: the sector of the angle
\* atan2(lngDiff, latDiff), 45 degrees wide around each of the eight
\* directions.  A difference vector is within 22.5 degrees of an axis when its
\* cross component is less than tan(22.5) = 0.4142... times its component
\* along the axis; 29/70 is that factor to four places.  atan2(0, 0) is 0.
CalculateDirection(origin, destination) ==
  LET latDiff == destination.lat - origin.lat
      lngDiff == destination.lng - origin.lng
  IN  IF latDiff >= 0 /\ Abs(lngDiff) * 70 <= latDiff * 29 THEN "norte"
      ELSE IF latDiff < 0 /\ Abs(lngDiff) * 70 < Abs(latDiff) * 29 THEN "sur"
      ELSE IF lngDiff > 0 /\ Abs(latDiff) * 70 < lngDiff * 29 THEN "este"
      ELSE IF lngDiff < 0 /\ Abs(latDiff) * 70 < Abs(lngDiff) * 29 THEN "oeste"
      ELSE IF lngDiff > 0 /\ latDiff > 0 THEN "noreste"
      ELSE IF lngDiff > 0 THEN "sureste"
      ELSE IF latDiff < 0 THEN "suroeste"
      ELSE "noroeste"

CampusSouth == 10
CampusNorth == 369

ValidateCampusCoordinates(c) ==
  /\ c.lat <= CampusNorth
  /\ c.lat >= CampusSouth
  /\ c.lng = Meridian

ValidateGPSLocation(c) ==
  IF c.lat = 0 \/ c.lng = 0 THEN FALSE ELSE ValidateCampusCoordinates(c)

\* ------------------------------------------------------------ place lookup

PlaceCoord(p) == [lat |-> p.latitud, lng |-> p.longitud]

FindByIdSet(id) == {i \in 1..Len(Places) : Places[i].id = id}
HasPlace(id) == FindByIdSet(id) # {}
FindById(id) == Places[CHOOSE i \in FindByIdSet(id) : \A j \in FindByIdSet(id) : i <= j]

AddDistance(p, location) ==
  LET distancia == CalculateDirectDistance(location, PlaceCoord(p))
  IN  [id |-> p.id, nombre |-> p.nombre, latitud |-> p.latitud,
       longitud |-> p.longitud, distancia |-> distancia,
       tiempoEstimadoCaminando |-> WalkingMinutes(distancia)]

\* the place at position k of the entries within the radius, after the stable
\* ascending sort by distance: the one with k - 1 entries before it
NearbyPlaceAt(withDistance, within, k) ==
  withDistance[
    CHOOSE i \in within :
      Cardinality({j \in within :
        \/ withDistance[j].distancia < withDistance[i].distancia
        \/ /\ withDistance[j].distancia = withDistance[i].distancia
           /\ j < i}) = k - 1]

\* a lookup that filtered the places and left them in cache order
FindNearbyPlacesInCacheOrder(location, radius) ==
  SelectSeq([i \in 1..Len(Places) |-> AddDistance(Places[i], location)],
            LAMBDA p : p.distancia <= radius)

\* NavigationService.findNearbyPlaces: map, filter, sort by distance
FindNearbyPlaces(location, radius) ==
  LET withDistance == [i \in 1..Len(Places) |-> AddDistance(Places[i], location)]
      within == {i \in 1..Len(Places) : withDistance[i].distancia <= radius}
  IN  [k \in 1..Cardinality(within) |-> NearbyPlaceAt(withDistance, within, k)]

NearestRadius == 100

\* <<>> stands for null
FindNearestPlace(location) ==
  LET nearbyPlaces == FindNearbyPlaces(location, NearestRadius)
  IN  IF Len(nearbyPlaces) > 0 THEN <<nearbyPlaces[1]>> ELSE <<>>

\* ------------------------------------------------------- custom-route store

Reverse(seq) == [i \in 1..Len(seq) |-> seq[Len(seq) + 1 - i]]

CustomRoute(o, d, pts, dist, mins) ==
  [origenId |-> o, destinoId |-> d, puntos |-> pts, distancia |-> dist,
   tiempoEstimado |-> mins]

\* the rows findFirst can match: the pair in either direction
RouteCandidates(origenId, destinoId, table) ==
  {r \in table :
     \/ r.origenId = origenId /\ r.destinoId = destinoId
     \/ r.origenId = destinoId /\ r.destinoId = origenId}

\* orderBy tiempoEstimado asc; the store breaks ties as it likes
FastestCandidates(origenId, destinoId, table) ==
  {r \in RouteCandidates(origenId, destinoId, table) :
     \A q \in RouteCandidates(origenId, destinoId, table) :
       r.tiempoEstimado <= q.tiempoEstimado}

\* every answer findFastestRoute can give; {} stands for NotFoundException
FindFastestRoute(origenId, destinoId, table) ==
  {[puntos |-> IF r.origenId = destinoId THEN Reverse(r.puntos) ELSE r.puntos,
    distancia |-> r.distancia,
    tiempoEstimado |-> r.tiempoEstimado,
    origenId |-> r.origenId,
    destinoId |-> r.destinoId,
    isReversed |-> (r.origenId = destinoId)] :
     r \in FastestCandidates(origenId, destinoId, table)}

\* ----------------------------------------------------------- route provider

\* the answers of a successful directions call: one leg of one step
ProviderAnswers(origen, destino) ==
  {[puntos |-> <<origen, destino>>,
    distancia |-> CalculateDirectDistance(origen, destino),
    tiempoEstimado |-> WalkingMinutes(CalculateDirectDistance(origen, destino))]}

\* ----------------------------------------------------------- route resolver

CustomRouteRadius == 50

NoDirection == ""

\* the direction the first of the instructions names: the text of the
\* direct-line fallback says north, the other texts name no direction
InstructionsDirection(via, pts) == IF via = "direct" THEN "norte" ELSE NoDirection

NotFound(destinationId) ==
  [status |-> "NotFound", destinationId |-> destinationId, via |-> "none",
   puntos |-> <<>>, distancia |-> 0, tiempoEstimado |-> 0,
   direction |-> NoDirection]

\* the result of the resolver: route (puntos, distancia, tiempoEstimado),
\* destination and instructions
Navigation(destinationId, via, pts, dist, mins) ==
  [status |-> "ok", destinationId |-> destinationId, via |-> via,
   puntos |-> pts, distancia |-> dist, tiempoEstimado |-> mins,
   direction |-> InstructionsDirection(via, pts)]

\* the custom routes the resolver may get for this origin: {} when none is
\* looked up or none is found (customRoute = null)
CustomRouteFor(currentLocation, destinationId, table) ==
  LET nearbyPlace == FindNearestPlace(currentLocation)
  IN  IF nearbyPlace # <<>> /\ nearbyPlace[1].distancia < CustomRouteRadius
      THEN FindFastestRoute(nearbyPlace[1].id, destinationId, table)
      ELSE {}

UsesCustomRoute(customRoute) == ~customRoute.isReversed

\* the provider branch: a provider answer, or the direct-line fallback
ProviderOrDirect(currentLocation, destination) ==
  {Navigation(destination.id, "google", g.puntos, g.distancia, g.tiempoEstimado) :
     g \in ProviderAnswers(currentLocation, PlaceCoord(destination))}
  \cup
  {Navigation(destination.id, "direct",
     <<currentLocation, PlaceCoord(destination)>>,
     CalculateDirectDistance(currentLocation, PlaceCoord(destination)),
     DirectMinutes(CalculateDirectDistance(currentLocation, PlaceCoord(destination))))}

\* every result createRouteFromCurrentLocation can give for this request;
\* via tells the branch taken (the provider is called for google and direct)
CreateRouteFromCurrentLocation(currentLocation, destinationId, table) ==
  IF ~HasPlace(destinationId)
  THEN {NotFound(destinationId)}
  ELSE
    LET found == CustomRouteFor(currentLocation, destinationId, table)
    IN  {Navigation(destinationId, "custom", <<currentLocation>> \o c.puntos,
                    c.distancia, c.tiempoEstimado) :
           c \in {x \in found : UsesCustomRoute(x)}}
        \cup
        (IF found = {} \/ \E x \in found : ~UsesCustomRoute(x)
         THEN ProviderOrDirect(currentLocation, FindById(destinationId))
         ELSE {})

\* the custom routes of the deployment the sessions run against
DefaultRoutes ==
  {CustomRoute("p1", "p2", <<Coord(100), Coord(200), Coord(300)>>, 200, 3)}

\* ------------------------------------------------------------------- state

VARIABLES
  activeSessions,   \* NavigationGateway.activeSessions: userId -> session object
  heap,             \* the session objects that are still referenced
  clientSockets,    \* NavigationGateway.clientSockets: userId -> socket
  open,             \* the sockets that are connected
  inflight,         \* the handlers suspended at an await
  now,              \* the wall clock, in ticks
  sessionHistory,   \* NavigationStateService.sessionHistory
  customRoutes,     \* the rows of the custom-route store
  nEvents,          \* inbound events dispatched so far
  lastStep,         \* what the last handler step did and emitted
  completedFor,     \* the sessions navigation_completed was emitted for, in order
  sessionsEnded,    \* endNavigation calls that removed a session
  probe,            \* one resolver call on its own: request and result
  scenario          \* what the clients of this behaviour send

vars ==
  <<activeSessions, heap, clientSockets, open, inflight, now, sessionHistory,
    customRoutes, nEvents, lastStep, completedFor, sessionsEnded, probe, scenario>>

NoPlace == ""
NoCoord == [lat |-> 0, lng |-> 0]

\* the NavigationSession object built by handleStartNavigation; lastLoc is
\* the location of the last message accepted for the session
Session(userId, destinationId, loc, t, navigation) ==
  [userId |-> userId, destinationId |-> destinationId, startLocation |-> loc,
   currentLocation |-> loc, startTime |-> t, isActive |-> TRUE,
   route |-> navigation, lastLoc |-> loc]

NullSession ==
  [userId |-> "", destinationId |-> NoPlace, startLocation |-> NoCoord,
   currentLocation |-> NoCoord, startTime |-> 0, isActive |-> FALSE,
   route |-> NotFound(NoPlace), lastLoc |-> NoCoord]

\* a handler suspended at an await: its parameters and the locals it holds
Handler(id, kind, pc, client, loc, dest, sess, sess2, sock2) ==
  [id |-> id, kind |-> kind, pc |-> pc, user |-> SocketUser(client),
   client |-> client, loc |-> loc, dest |-> dest, sess |-> sess,
   sess2 |-> sess2, sock2 |-> sock2]

\* client.emit(ev, ...) on socket to; snap is the session the payload carries
Ev(to, ev, sid, hp) ==
  [to |-> to, ev |-> ev, sid |-> sid,
   snap |-> IF sid \in DOMAIN hp THEN hp[sid] ELSE NullSession, n |-> 0,
   place |-> NoPlace]

\* navigation_completed with stats.duration = n
EvDuration(to, ev, sid, hp, n) == [Ev(to, ev, sid, hp) EXCEPT !.n = n]

\* nearby_point with place: closestPlace
EvPlace(to, ev, closestPlace) ==
  [Ev(to, ev, NoSession, <<>>) EXCEPT !.place = closestPlace.id]

\* the session object a step works on: the one its handler holds, or for a
\* handler that runs without an await the one the map holds
StepSession(id, user) ==
  IF \E h \in inflight : h.id = id
  THEN LET h == CHOOSE g \in inflight : g.id = id
       IN  IF h.sess2 # NoSession THEN h.sess2 ELSE h.sess
  ELSE IF user \in Users THEN activeSessions[user] ELSE NoSession

\* one step of a handler: what it emitted, whether it called the resolver, the
\* session object it worked on and the one the map held for the user before it
Step(op, id, user, client, emits, resolver) ==
  [op |-> op, id |-> id, user |-> user, client |-> client, emits |-> emits,
   resolver |-> resolver, sess |-> StepSession(id, user),
   prior |-> IF user \in Users THEN activeSessions[user] ELSE NoSession]

NoStep ==
  [op |-> "init", id |-> 0, user |-> "", client |-> NoSocket, emits |-> <<>>,
   resolver |-> FALSE, sess |-> NoSession, prior |-> NoSession]

\* session objects no map entry and no suspended handler refers to are gone
Reachable(as, inf) ==
  ({as[u] : u \in Users} \cup {h.sess : h \in inf} \cup {h.sess2 : h \in inf})
    \ {NoSession}

Collect(hp, as, inf) == [sid \in (DOMAIN hp) \cap Reachable(as, inf) |-> hp[sid]]

EmptyHeap == [sid \in {} |-> NullSession]

NoProbe == [origin |-> NoCoord, destinationId |-> NoPlace, result |-> NotFound(NoPlace),
            done |-> FALSE]

\* the state the gateway is constructed in
InitGateway ==
  /\ activeSessions = [u \in Users |-> NoSession]
  /\ heap = EmptyHeap
  /\ clientSockets = [u \in Users |-> NoSocket]
  /\ open = [s \in Sockets |-> FALSE]
  /\ inflight = {}
  /\ now = 0
  /\ sessionHistory = <<>>
  /\ nEvents = 0
  /\ lastStep = NoStep
  /\ completedFor = <<>>
  /\ sessionsEnded = 0

Init ==
  /\ InitGateway
  /\ customRoutes = DefaultRoutes
  /\ probe = NoProbe
  /\ scenario = "campus"

InitWalk ==
  /\ InitGateway
  /\ customRoutes = DefaultRoutes
  /\ probe = NoProbe
  /\ scenario = "walk"

InitDevices ==
  /\ InitGateway
  /\ customRoutes = DefaultRoutes
  /\ probe = NoProbe
  /\ scenario = "devices"

\* ------------------------------------------------------------------ inputs

\* What the clients send depends on the scenario, which a behaviour keeps:
\*   "campus"  two students with one socket each
\*   "walk"    one student with one socket, walking towards p2
\*   "devices" one student with two sockets, whose GPS also reports a
\*             latitude beyond 90 degrees (20 000 km of arc from the
\*             reference point)
\* Locations: 120 and 110 are 20 m and 10 m from p1 (custom route p1 -> p2),
\* 400 is off campus; 295 and 290 are 5 m and 10 m from p2, 250 is 50 m from
\* the route points 200 and 300, 130 is 30 m from p1 and 20 m from p3, 30 is
\* far from every route and 70 m from the nearest place, so that a route from
\* there comes from the provider.
ScenarioSockets ==
  [campus |-> {"a1", "b1"}, walk |-> {"a1"}, devices |-> {"a1", "a2"}]
StartLocations ==
  [campus |-> {Coord(120), Coord(110)}, walk |-> {Coord(120), Coord(400)},
   devices |-> {Coord(120), Coord(20000000)}]
Destinations ==
  [campus |-> {"p2"}, walk |-> {"p2", UnknownPlace}, devices |-> {"p2"}]
UpdateLocations ==
  [campus |-> {Coord(295), Coord(30)},
   walk |-> {Coord(295), Coord(290), Coord(250), Coord(130), Coord(30)},
   devices |-> {Coord(295), Coord(20000000)}]
RecalcLocations ==
  [campus |-> {Coord(30)}, walk |-> {Coord(30)}, devices |-> {Coord(20000000)}]

\* --------------------------------------------------------- gateway helpers

ArrivalRadius == 10

\* a getNavigationUpdate that never reported the arrival
GetNavigationUpdateNeverArriving(currentLocation, destinationId) ==
  [distanciaRestante |->
     CalculateDirectDistance(currentLocation, PlaceCoord(FindById(destinationId))),
   tiempoRestante |->
     WalkingMinutes(
       CalculateDirectDistance(currentLocation, PlaceCoord(FindById(destinationId)))),
   llegada |-> FALSE]

\* NavigationService.getNavigationUpdate
GetNavigationUpdate(currentLocation, destinationId) ==
  LET distanciaRestante ==
        CalculateDirectDistance(currentLocation, PlaceCoord(FindById(destinationId)))
  IN  [distanciaRestante |-> distanciaRestante,
       tiempoRestante |-> WalkingMinutes(distanciaRestante),
       llegada |-> distanciaRestante < ArrivalRadius]

DeviationThreshold == 50

\* the least distance from the location to a point of the route; a distance
\* above every threshold stands for Infinity (no point)
Infinity == 1000000

RECURSIVE MinDistance(_, _)
MinDistance(puntos, location) ==
  IF puntos = <<>> THEN Infinity
  ELSE Min2(GatewayCalculateDistance(location, Head(puntos)),
            MinDistance(Tail(puntos), location))

\* NavigationGateway.checkRouteDeviation
CheckRouteDeviation(session, location) ==
  [isDeviated |-> MinDistance(session.route.puntos, location) > DeviationThreshold,
   distance |-> MinDistance(session.route.puntos, location)]

NearbyPointRadius == 30

\* Math.ceil(duration / (1000 * 60)) of the time since startTime
DurationMinutes(startTime, t) == CeilDiv(t - startTime, TicksPerMinute)

\* the part of handleLocationUpdate after the deviation branch: the progress
\* event, then checkNearbyPoints up to its await; gives the events and the
\* handler left suspended (or none)
ProgressTail(h, hp) ==
  [emits |-> <<Ev(h.client, "navigation_update", h.sess, hp)>>,
   next |-> IF clientSockets[h.user] = NoSocket
            THEN {}
            ELSE {[h EXCEPT !.pc = "nearby", !.sock2 = clientSockets[h.user]]}]

\* --------------------------------------------------------------- connection

\* a handleConnection that never restored a session
ConnectionEmitsWithoutRestore(s) == <<Ev(s, "connected", NoSession, heap)>>

\* what handleConnection emits to an accepted client: connected, then
\* session_restored with the session registered for the user, if any
ConnectionEmits(s) ==
  <<Ev(s, "connected", NoSession, heap)>> \o
    (IF activeSessions[SocketUser(s)] # NoSession
     THEN <<Ev(s, "session_restored", activeSessions[SocketUser(s)], heap)>>
     ELSE <<>>)

\* handleConnection, for a socket with a valid STUDENT token
HandleConnection(s) ==
  /\ ~open[s]
  /\ nEvents < MaxEvents
  /\ nEvents' = nEvents + 1
  /\ open' = [open EXCEPT ![s] = TRUE]
  /\ clientSockets' = [clientSockets EXCEPT ![SocketUser(s)] = s]
  /\ lastStep' = Step("connect", nEvents + 1, SocketUser(s), s, ConnectionEmits(s), FALSE)
  /\ UNCHANGED <<activeSessions, heap, inflight, now, sessionHistory, customRoutes,
                 completedFor, sessionsEnded, probe, scenario>>

\* a handleDisconnect that also deleted the user's session
DisconnectSessionsDropping(u) == [activeSessions EXCEPT ![u] = NoSession]

\* a handleDisconnect that cleared the whole registry of sessions
DisconnectSessionsClearing(u) == [v \in Users |-> NoSession]

\* what handleDisconnect leaves in the registry of sessions
DisconnectSessions(u) == activeSessions

\* handleDisconnect
HandleDisconnect(s) ==
  /\ open[s]
  /\ nEvents < MaxEvents
  /\ nEvents' = nEvents + 1
  /\ open' = [open EXCEPT ![s] = FALSE]
  /\ clientSockets' = [clientSockets EXCEPT ![SocketUser(s)] = NoSocket]
  /\ activeSessions' = DisconnectSessions(SocketUser(s))
  /\ heap' = Collect(heap, activeSessions', inflight)
  /\ lastStep' = Step("disconnect", nEvents + 1, SocketUser(s), s, <<>>, FALSE)
  /\ UNCHANGED <<inflight, now, sessionHistory, customRoutes, completedFor,
                 sessionsEnded, probe, scenario>>

\* ---------------------------------------------------------- start_navigation

\* handleStartNavigation up to the await of the resolver
HandleStartNavigation(s, destinationId, loc) ==
  /\ open[s]
  /\ nEvents < MaxEvents
  /\ IF ValidateGPSLocation(loc) THEN Cardinality(inflight) < MaxInflight
     ELSE TRUE
  /\ nEvents' = nEvents + 1
  /\ IF ~ValidateGPSLocation(loc)
     THEN /\ inflight' = inflight
          /\ lastStep' =
               Step("start", nEvents + 1, SocketUser(s), s,
                    <<Ev(s, "navigation_error:GPS_INVALID", NoSession, heap)>>, FALSE)
     ELSE /\ inflight' = inflight \cup
               {Handler(nEvents + 1, "start", "resolve", s, loc, destinationId,
                        NoSession, NoSession, NoSocket)}
          /\ lastStep' = Step("start", nEvents + 1, SocketUser(s), s, <<>>, TRUE)
  /\ UNCHANGED <<activeSessions, heap, clientSockets, open, now, sessionHistory,
                 customRoutes, completedFor, sessionsEnded, probe, scenario>>

\* a handleStartNavigation that updated the user's session in place, keeping
\* where and when it started
StartSessionKeepingOld(h, navigation, old) ==
  IF old = NullSession
  THEN Session(h.user, h.dest, h.loc, now, navigation)
  ELSE [Session(h.user, h.dest, h.loc, now, navigation)
          EXCEPT !.startLocation = old.startLocation, !.startTime = old.startTime]

\* the session handleStartNavigation stores for request h, given the session
\* object the user had before (NullSession when none)
StartSession(h, navigation, old) ==
  Session(h.user, h.dest, h.loc, now, navigation)

\* a catch branch that also ended the session the user had
StartFailedSessionsDropping(h) == [activeSessions EXCEPT ![h.user] = NoSession]

\* what the catch branch of handleStartNavigation leaves in the registry
StartFailedSessions(h) == activeSessions

\* handleStartNavigation from the resolver's answer on
StartStore(h, navigation) ==
  /\ inflight' = inflight \ {h}
  /\ IF navigation.status = "NotFound"
     THEN /\ activeSessions' = StartFailedSessions(h)
          /\ heap' = Collect(heap, activeSessions', inflight')
          /\ lastStep' =
               Step("started", h.id, h.user, h.client,
                    <<Ev(h.client, "navigation_error:START_FAILED", NoSession, heap)>>,
                    FALSE)
     ELSE /\ activeSessions' = [activeSessions EXCEPT ![h.user] = h.id]
          /\ heap' =
               Collect(
                 [sid \in (DOMAIN heap) \cup {h.id} |->
                    IF sid = h.id
                    THEN StartSession(h, navigation,
                           IF activeSessions[h.user] = NoSession THEN NullSession
                           ELSE heap[activeSessions[h.user]])
                    ELSE heap[sid]],
                 activeSessions', inflight')
          /\ lastStep' =
               Step("started", h.id, h.user, h.client,
                    <<Ev(h.client, "navigation_started", h.id, heap')>>, FALSE)
  /\ UNCHANGED <<clientSockets, open, now, sessionHistory, customRoutes, nEvents,
                 completedFor, sessionsEnded, probe, scenario>>

StartResolved(h) ==
  /\ h \in inflight
  /\ h.kind = "start"
  /\ h.pc = "resolve"
  /\ \E navigation \in CreateRouteFromCurrentLocation(h.loc, h.dest, customRoutes) :
       StartStore(h, navigation)

\* ----------------------------------------------------------- location_update

\* a guard that only looked for the session: !session
NoActiveSessionIgnoringPause(u) == activeSessions[u] = NoSession

\* the guard of handleLocationUpdate: !session || !session.isActive
NoActiveSession(u) ==
  IF activeSessions[u] = NoSession THEN TRUE ELSE ~heap[activeSessions[u]].isActive

\* handleLocationUpdate up to the await of getNavigationUpdate
HandleLocationUpdate(s, loc) ==
  /\ open[s]
  /\ nEvents < MaxEvents
  /\ IF NoActiveSession(SocketUser(s)) THEN TRUE
     ELSE Cardinality(inflight) < MaxInflight
  /\ nEvents' = nEvents + 1
  /\ IF NoActiveSession(SocketUser(s))
     THEN /\ heap' = heap
          /\ inflight' = inflight
          /\ lastStep' =
               Step("update", nEvents + 1, SocketUser(s), s,
                    <<Ev(s, "navigation_error:NO_ACTIVE_SESSION", NoSession, heap)>>,
                    FALSE)
     ELSE /\ heap' = [heap EXCEPT ![activeSessions[SocketUser(s)]].currentLocation = loc,
                                  ![activeSessions[SocketUser(s)]].lastLoc = loc]
          /\ inflight' = inflight \cup
               {Handler(nEvents + 1, "update", "progress", s, loc,
                        heap[activeSessions[SocketUser(s)]].destinationId,
                        activeSessions[SocketUser(s)], NoSession, NoSocket)}
          /\ lastStep' = Step("update", nEvents + 1, SocketUser(s), s, <<>>, FALSE)
  /\ UNCHANGED <<activeSessions, clientSockets, open, now, sessionHistory,
                 customRoutes, completedFor, sessionsEnded, probe, scenario>>

\* what endNavigation appends to the session history: nothing, it only
\* deletes the map entry (recordSessionEnd has no caller)
EndNavigationHistory(u, reason) == sessionHistory

\* handleArrival and endNavigation(userId, 'completed'), with the rest of the
\* handler: nothing more runs
UpdateArrival(h) ==
  /\ inflight' = inflight \ {h}
  /\ IF clientSockets[h.user] = NoSocket
     THEN /\ activeSessions' = activeSessions
          /\ completedFor' = completedFor
          /\ sessionsEnded' = sessionsEnded
          /\ sessionHistory' = sessionHistory
          /\ lastStep' = Step("arrival", h.id, h.user, h.client, <<>>, FALSE)
     ELSE /\ activeSessions' = [activeSessions EXCEPT ![h.user] = NoSession]
          /\ completedFor' = Append(completedFor, h.sess)
          /\ sessionsEnded' =
               sessionsEnded + (IF activeSessions[h.user] # NoSession THEN 1 ELSE 0)
          /\ sessionHistory' = EndNavigationHistory(h.user, "completed")
          /\ lastStep' =
               Step("arrival", h.id, h.user, h.client,
                    <<EvDuration(clientSockets[h.user], "navigation_completed", h.sess,
                                 heap, DurationMinutes(heap[h.sess].startTime, now))>>,
                    FALSE)
  /\ heap' = Collect(heap, activeSessions', inflight')

\* the deviation branch: route_deviation, then recalculateRoute up to its await
\* (it returns at once without a registered socket or a registered session)
UpdateDeviated(h) ==
  /\ UNCHANGED <<activeSessions, completedFor, sessionsEnded, sessionHistory>>
  /\ IF clientSockets[h.user] = NoSocket \/ activeSessions[h.user] = NoSession
     THEN /\ inflight' = (inflight \ {h}) \cup ProgressTail(h, heap).next
          /\ lastStep' =
               Step("progress", h.id, h.user, h.client,
                    <<Ev(h.client, "route_deviation", h.sess, heap)>>
                      \o ProgressTail(h, heap).emits,
                    FALSE)
     ELSE /\ inflight' = (inflight \ {h}) \cup
               {[h EXCEPT !.pc = "recalc", !.sess2 = activeSessions[h.user],
                          !.sock2 = clientSockets[h.user]]}
          /\ lastStep' =
               Step("progress", h.id, h.user, h.client,
                    <<Ev(h.client, "route_deviation", h.sess, heap)>>, TRUE)
  /\ heap' = Collect(heap, activeSessions', inflight')

UpdateOnRoute(h) ==
  /\ UNCHANGED <<activeSessions, completedFor, sessionsEnded, sessionHistory>>
  /\ inflight' = (inflight \ {h}) \cup ProgressTail(h, heap).next
  /\ lastStep' =
       Step("progress", h.id, h.user, h.client, ProgressTail(h, heap).emits, FALSE)
  /\ heap' = Collect(heap, activeSessions', inflight')

\* handleLocationUpdate from the answer of getNavigationUpdate to the next await
UpdateProgress(h) ==
  /\ h \in inflight
  /\ h.kind = "update"
  /\ h.pc = "progress"
  /\ IF GetNavigationUpdate(h.loc, h.dest).llegada
     THEN UpdateArrival(h)
     ELSE IF CheckRouteDeviation(heap[h.sess], h.loc).isDeviated
          THEN UpdateDeviated(h)
          ELSE UpdateOnRoute(h)
  /\ UNCHANGED <<clientSockets, open, now, customRoutes, nEvents, probe, scenario>>

\* what the resolver can answer a recalculation: a route, or destination not
\* found when the place is no longer in the places cache
RecalculationAnswers(currentLocation, destinationId, table) ==
  CreateRouteFromCurrentLocation(currentLocation, destinationId, table)
    \cup {NotFound(destinationId)}

\* a recalculateRoute that stored the failed answer as the route
RecalculatedStoringFailure(hp, h, navigation) ==
  [hp EXCEPT ![h.sess2].route = navigation,
             ![h.sess2].currentLocation =
                IF navigation.status = "NotFound" THEN hp[h.sess2].currentLocation
                ELSE h.loc]

\* a recalculateRoute that put the new points into the route it had
RecalculatedPointsOnly(hp, h, navigation) ==
  IF navigation.status = "NotFound"
  THEN hp
  ELSE [hp EXCEPT ![h.sess2].route.puntos = navigation.puntos,
                  ![h.sess2].currentLocation = h.loc]

\* recalculateRoute from the resolver's answer on: the session object it took
\* from the map before the await gets the route and the location
Recalculated(hp, h, navigation) ==
  IF navigation.status = "NotFound"
  THEN hp
  ELSE [hp EXCEPT ![h.sess2].route = navigation,
                  ![h.sess2].currentLocation = h.loc]

RecalculatedEvents(hp, h, navigation) ==
  IF navigation.status = "NotFound"
  THEN <<Ev(h.sock2, "navigation_error:RECALCULATION_FAILED", NoSession, hp)>>
  ELSE <<Ev(h.sock2, "route_recalculated", h.sess2, hp)>>

\* handleLocationUpdate from the end of its recalculation to the next await
UpdateRecalculatedWith(h, navigation) ==
  /\ inflight' = (inflight \ {h}) \cup ProgressTail(h, heap).next
  /\ heap' = Collect(Recalculated(heap, h, navigation), activeSessions, inflight')
  /\ lastStep' =
       Step("recalculated", h.id, h.user, h.client,
            RecalculatedEvents(Recalculated(heap, h, navigation), h, navigation)
              \o ProgressTail(h, Recalculated(heap, h, navigation)).emits,
            FALSE)
  /\ UNCHANGED <<activeSessions, clientSockets, open, now, sessionHistory,
                 customRoutes, nEvents, completedFor, sessionsEnded, probe, scenario>>

UpdateRecalculated(h) ==
  /\ h \in inflight
  /\ h.kind = "update"
  /\ h.pc = "recalc"
  /\ \E navigation \in
         RecalculationAnswers(h.loc, heap[h.sess2].destinationId, customRoutes) :
       UpdateRecalculatedWith(h, navigation)

\* checkNearbyPoints from the answer of findNearbyPlaces on; a failed lookup
\* is swallowed
UpdateNearby(h, found) ==
  /\ h \in inflight
  /\ h.kind = "update"
  /\ h.pc = "nearby"
  /\ inflight' = inflight \ {h}
  /\ heap' = Collect(heap, activeSessions, inflight')
  /\ lastStep' =
       Step("nearby", h.id, h.user, h.client,
            IF found /\ Len(FindNearbyPlaces(h.loc, NearbyPointRadius)) > 0
            THEN <<EvPlace(h.sock2, "nearby_point",
                           FindNearbyPlaces(h.loc, NearbyPointRadius)[1])>>
            ELSE <<>>,
            FALSE)
  /\ UNCHANGED <<activeSessions, clientSockets, open, now, sessionHistory,
                 customRoutes, nEvents, completedFor, sessionsEnded, probe, scenario>>

\* ------------------------------------------------- pause, resume and cancel

\* a handler that flipped the status whatever the message
SetActiveSessionToggling(session, active) ==
  [session EXCEPT !.isActive = ~session.isActive]

\* session.isActive = false / session.isActive = true
SetActiveSession(session, active) == [session EXCEPT !.isActive = active]

\* handlePauseNavigation and handleResumeNavigation: the status is set and the
\* event emitted when the user has a session
SetActive(s, active, op, ev) ==
  /\ open[s]
  /\ nEvents < MaxEvents
  /\ nEvents' = nEvents + 1
  /\ IF activeSessions[SocketUser(s)] = NoSession
     THEN /\ heap' = heap
          /\ lastStep' = Step(op, nEvents + 1, SocketUser(s), s, <<>>, FALSE)
     ELSE /\ heap' = [heap EXCEPT ![activeSessions[SocketUser(s)]] =
                                    SetActiveSession(@, active)]
          /\ lastStep' =
               Step(op, nEvents + 1, SocketUser(s), s,
                    <<Ev(s, ev, activeSessions[SocketUser(s)], heap')>>, FALSE)
  /\ UNCHANGED <<activeSessions, clientSockets, open, inflight, now, sessionHistory,
                 customRoutes, completedFor, sessionsEnded, probe, scenario>>

HandlePauseNavigation(s) == SetActive(s, FALSE, "pause", "navigation_paused")

HandleResumeNavigation(s) == SetActive(s, TRUE, "resume", "navigation_resumed")

\* handleCancelNavigation: endNavigation(userId, 'cancelled')
HandleCancelNavigation(s) ==
  /\ open[s]
  /\ nEvents < MaxEvents
  /\ nEvents' = nEvents + 1
  /\ activeSessions' = [activeSessions EXCEPT ![SocketUser(s)] = NoSession]
  /\ sessionsEnded' =
       sessionsEnded + (IF activeSessions[SocketUser(s)] # NoSession THEN 1 ELSE 0)
  /\ sessionHistory' = EndNavigationHistory(SocketUser(s), "cancelled")
  /\ heap' = Collect(heap, activeSessions', inflight)
  /\ lastStep' =
       Step("cancel", nEvents + 1, SocketUser(s), s,
            <<Ev(s, "navigation_cancelled", NoSession, heap)>>, FALSE)
  /\ UNCHANGED <<clientSockets, open, inflight, now, customRoutes, completedFor,
                 probe, scenario>>

\* ---------------------------------------------------------- recalculate_route

\* handleRecalculateRoute: recalculateRoute up to the await of the resolver
HandleRecalculateRoute(s, loc) ==
  /\ open[s]
  /\ nEvents < MaxEvents
  /\ nEvents' = nEvents + 1
  /\ IF clientSockets[SocketUser(s)] = NoSocket \/ activeSessions[SocketUser(s)] = NoSession
     THEN /\ inflight' = inflight
          /\ heap' = heap
          /\ lastStep' = Step("recalculate", nEvents + 1, SocketUser(s), s, <<>>, FALSE)
     ELSE /\ Cardinality(inflight) < MaxInflight
          /\ inflight' = inflight \cup
               {Handler(nEvents + 1, "recalculate", "resolve", s, loc,
                        heap[activeSessions[SocketUser(s)]].destinationId, NoSession,
                        activeSessions[SocketUser(s)], clientSockets[SocketUser(s)])}
          /\ heap' = [heap EXCEPT ![activeSessions[SocketUser(s)]].lastLoc = loc]
          /\ lastStep' = Step("recalculate", nEvents + 1, SocketUser(s), s, <<>>, TRUE)
  /\ UNCHANGED <<activeSessions, clientSockets, open, now, sessionHistory,
                 customRoutes, completedFor, sessionsEnded, probe, scenario>>

\* handleRecalculateRoute from the resolver's answer on
RecalculateResolvedWith(h, navigation) ==
  /\ inflight' = inflight \ {h}
  /\ heap' = Collect(Recalculated(heap, h, navigation), activeSessions, inflight')
  /\ lastStep' =
       Step("recalculated", h.id, h.user, h.client,
            RecalculatedEvents(Recalculated(heap, h, navigation), h, navigation), FALSE)
  /\ UNCHANGED <<activeSessions, clientSockets, open, now, sessionHistory,
                 customRoutes, nEvents, completedFor, sessionsEnded, probe, scenario>>

RecalculateResolved(h) ==
  /\ h \in inflight
  /\ h.kind = "recalculate"
  /\ h.pc = "resolve"
  /\ \E navigation \in
         RecalculationAnswers(h.loc, heap[h.sess2].destinationId, customRoutes) :
       RecalculateResolvedWith(h, navigation)

\* ---------------------------------------------------------------------- time

Tick ==
  /\ now < MaxClock
  /\ now' = now + 1
  /\ lastStep' = Step("tick", 0, "", NoSocket, <<>>, FALSE)
  /\ UNCHANGED <<activeSessions, heap, clientSockets, open, inflight, sessionHistory,
                 customRoutes, nEvents, completedFor, sessionsEnded, probe, scenario>>

\* --------------------------------------------------------------- the gateway

Next ==
  \/ \E s \in ScenarioSockets[scenario] : HandleConnection(s)
  \/ \E s \in ScenarioSockets[scenario] : HandleDisconnect(s)
  \/ \E s \in ScenarioSockets[scenario], d \in Destinations[scenario],
        loc \in StartLocations[scenario] :
       HandleStartNavigation(s, d, loc)
  \/ \E h \in inflight : StartResolved(h)
  \/ \E s \in ScenarioSockets[scenario], loc \in UpdateLocations[scenario] :
       HandleLocationUpdate(s, loc)
  \/ \E h \in inflight : UpdateProgress(h)
  \/ \E h \in inflight : UpdateRecalculated(h)
  \/ \E h \in inflight, found \in BOOLEAN : UpdateNearby(h, found)
  \/ \E s \in ScenarioSockets[scenario] : HandlePauseNavigation(s)
  \/ \E s \in ScenarioSockets[scenario] : HandleResumeNavigation(s)
  \/ \E s \in ScenarioSockets[scenario] : HandleCancelNavigation(s)
  \/ \E s \in ScenarioSockets[scenario], loc \in RecalcLocations[scenario] :
       HandleRecalculateRoute(s, loc)
  \/ \E h \in inflight : RecalculateResolved(h)
  \/ Tick

Spec == Init /\ [][Next]_vars

SpecWalk == InitWalk /\ [][Next]_vars

\* ------------------------------------------- a custom route without points

\* The puntos column of a custom route is free-form JSON; the resolver takes
\* a value that is not a list for the empty list.  Here the one stored route
\* from p1 to p2 has no points.
RoutesWithoutPoints == {CustomRoute("p1", "p2", <<>>, 200, 3)}

InitWithoutPoints ==
  /\ InitGateway
  /\ customRoutes = RoutesWithoutPoints
  /\ probe = NoProbe
  /\ scenario = "walk"

SpecWithoutPoints == InitWithoutPoints /\ [][Next]_vars

\* ------------------------------------------------------- calls that hang

\* The call a handler awaits (places cache, custom-route store, route
\* provider) never answers: no await of the gateway or of the resolver is
\* bounded by a timeout, so the handler stays suspended for good.
CallNeverAnswers(h) ==
  /\ h \in inflight
  /\ h.pc # "hung"
  /\ inflight' = (inflight \ {h}) \cup {[h EXCEPT !.pc = "hung"]}
  /\ lastStep' = Step("hang", h.id, h.user, h.client, <<>>, FALSE)
  /\ UNCHANGED <<activeSessions, heap, clientSockets, open, now, sessionHistory,
                 customRoutes, nEvents, completedFor, sessionsEnded, probe, scenario>>

\* a step of a suspended handler whose call was answered
HandlerStep ==
  \E h \in inflight :
    \/ StartResolved(h)
    \/ UpdateProgress(h)
    \/ UpdateRecalculated(h)
    \/ \E found \in BOOLEAN : UpdateNearby(h, found)
    \/ RecalculateResolved(h)

NextLive ==
  \/ Next
  \/ \E h \in inflight : CallNeverAnswers(h)

\* every call that is answered lets its handler go on
SpecLive == InitWalk /\ [][NextLive]_vars /\ WF_vars(HandlerStep)

\* ------------------------------------------------------------ notifications

\* a notifyUser that emitted on every open socket of the user
NotifyEmitsToOpenSockets(u, event) ==
  (IF open["a1"] /\ SocketUser("a1") = u
   THEN <<Ev("a1", event, NoSession, heap)>> ELSE <<>>)
  \o (IF open["a2"] /\ SocketUser("a2") = u
      THEN <<Ev("a2", event, NoSession, heap)>> ELSE <<>>)
  \o (IF open["b1"] /\ SocketUser("b1") = u
      THEN <<Ev("b1", event, NoSession, heap)>> ELSE <<>>)

\* what notifyUser emits: the event on the registered socket, if there is one
NotifyEmits(u, event) ==
  IF clientSockets[u] = NoSocket
  THEN <<>>
  ELSE <<Ev(clientSockets[u], event, NoSession, heap)>>

\* NavigationGateway.notifyUser, as NavigationStateService.notifyUser calls it
NotifyUser(u) ==
  /\ nEvents < MaxEvents
  /\ nEvents' = nEvents + 1
  /\ lastStep' =
       Step("notify", nEvents + 1, u, NoSocket, NotifyEmits(u, "notification"), FALSE)
  /\ UNCHANGED <<activeSessions, heap, clientSockets, open, inflight, now,
                 sessionHistory, customRoutes, completedFor, sessionsEnded, probe,
                 scenario>>

\* sockets that are refused: x1 presents no token, x2 the token of an
\* administrator, x3 a token that does not verify
Unauthenticated == {"x1", "x2", "x3"}

\* handleConnection for a socket without a valid STUDENT token:
\* client.disconnect() and return; the handleDisconnect that follows finds no
\* client.data.userId and does nothing
HandleConnectionRejected(s) ==
  /\ nEvents < MaxEvents
  /\ nEvents' = nEvents + 1
  /\ lastStep' = Step("reject", nEvents + 1, "", s, <<>>, FALSE)
  /\ UNCHANGED <<activeSessions, heap, clientSockets, open, inflight, now,
                 sessionHistory, customRoutes, completedFor, sessionsEnded, probe,
                 scenario>>

NextDevices ==
  \/ Next
  \/ \E u \in Users : NotifyUser(u)
  \/ \E s \in Unauthenticated : HandleConnectionRejected(s)

SpecDevices == InitDevices /\ [][NextDevices]_vars

\* ------------------------------------------------------- the resolver alone

\* The rows a custom-route store may hold: CustomRoutesService.create refuses a
\* second row for the same origin and destination, a row for the opposite
\* direction is accepted.
RouteRows ==
  {CustomRoute("p1", "p2", <<Coord(100), Coord(200), Coord(300)>>, 200, 3),
   CustomRoute("p2", "p1", <<Coord(300), Coord(210), Coord(100)>>, 210, 2),
   CustomRoute("p2", "p1", <<Coord(300), Coord(190), Coord(100)>>, 190, 3),
   CustomRoute("p2", "p1", <<Coord(300), Coord(180), Coord(100)>>, 220, 4),
   CustomRoute("p3", "p2", <<Coord(150), Coord(300)>>, 150, 2)}

RouteTables ==
  {table \in SUBSET RouteRows :
     \A a, b \in table :
       (a.origenId = b.origenId /\ a.destinoId = b.destinoId) => a = b}

\* 120 and 140 are less than 50 m from p1 and p3, 125 is as far from p1 as from
\* p3, 50 is 50 m from p1, 240 has p2 within 100 m but not within 50 m, 220
\* has no place within 100 m, 100 is p1 itself, 200 m from p2
ProbeOrigins ==
  {Coord(120), Coord(125), Coord(140), Coord(50), Coord(240), Coord(220),
   Coord(100)}

ProbeDestinations == {"p1", "p2", "p3", UnknownPlace}

InitResolver ==
  /\ InitGateway
  /\ customRoutes \in RouteTables
  /\ probe \in {[origin |-> o, destinationId |-> d, result |-> NotFound(NoPlace),
                  done |-> FALSE] : o \in ProbeOrigins, d \in ProbeDestinations}
  /\ scenario = "resolver"

\* one call of createRouteFromCurrentLocation
ResolveProbe ==
  /\ ~probe.done
  /\ \E navigation \in
         CreateRouteFromCurrentLocation(probe.origin, probe.destinationId,
                                        customRoutes) :
       probe' = [probe EXCEPT !.result = navigation, !.done = TRUE]
  /\ UNCHANGED <<activeSessions, heap, clientSockets, open, inflight, now,
                 sessionHistory, customRoutes, nEvents, lastStep, completedFor,
                 sessionsEnded, scenario>>

SpecResolver == InitResolver /\ [][ResolveProbe]_vars

\* ------------------------------------------------- the session history alone

HistoryCap == 1000

\* the entry recordSessionEnd pushes at time t
SessionHistoryEntry(userId, session, status, t) ==
  [userId |-> userId,
   destinationId |-> session.destinationId,
   destinationName |->
     IF session.route.status = "ok" THEN FindById(session.route.destinationId).nombre
     ELSE "Desconocido",
   startTime |-> session.startTime,
   endTime |-> t,
   duration |-> DurationMinutes(session.startTime, t),
   status |-> status]

\* a cap that kept the first entries and dropped the new ones
CapHistoryKeepingOldest(history) ==
  IF Len(history) > HistoryCap THEN SubSeq(history, 1, HistoryCap) ELSE history

\* sessionHistory.slice(-1000) when there are more than 1000 entries
CapHistory(history) ==
  IF Len(history) > HistoryCap
  THEN SubSeq(history, Len(history) - HistoryCap + 1, Len(history))
  ELSE history

\* the sessions whose end is recorded: one per tick of the clock, of either
\* user, completed or cancelled
RecordedUser(t) == IF t % 2 = 0 THEN "u1" ELSE "u2"
RecordedStatus(t) == IF t % 3 = 0 THEN "cancelled" ELSE "completed"
RecordedSession(t) ==
  Session(RecordedUser(t), "p2", Coord(120), t - (t % 4),
          Navigation("p2", "direct", <<Coord(120), Coord(300)>>, 180, 3))

\* the history after the first n calls, none of which met the cap
RecordedHistory(n) ==
  [k \in 1..n |->
     SessionHistoryEntry(RecordedUser(k - 1), RecordedSession(k - 1),
                         RecordedStatus(k - 1), k - 1)]

\* how many calls have been made when a behaviour of the history starts
RecordedBefore == {0, 500, 985, HistoryCap}

InitHistory ==
  /\ activeSessions = [u \in Users |-> NoSession]
  /\ heap = EmptyHeap
  /\ clientSockets = [u \in Users |-> NoSocket]
  /\ open = [s \in Sockets |-> FALSE]
  /\ inflight = {}
  /\ now \in RecordedBefore
  /\ sessionHistory = RecordedHistory(now)
  /\ nEvents = 0
  /\ lastStep = NoStep
  /\ completedFor = <<>>
  /\ sessionsEnded = 0
  /\ customRoutes = DefaultRoutes
  /\ probe = NoProbe
  /\ scenario = "history"

\* NavigationStateService.recordSessionEnd, called once per tick of the clock;
\* nEvents counts the calls of the behaviour
RecordSessionEnd(userId, session, status) ==
  /\ nEvents < MaxRecords
  /\ nEvents' = nEvents + 1
  /\ sessionHistory' =
       CapHistory(Append(sessionHistory,
                         SessionHistoryEntry(userId, session, status, now)))
  /\ now' = now + 1
  /\ UNCHANGED <<activeSessions, heap, clientSockets, open, inflight, customRoutes,
                 lastStep, completedFor, sessionsEnded, probe, scenario>>

SpecHistory ==
  InitHistory
    /\ [][RecordSessionEnd(RecordedUser(now), RecordedSession(now),
                           RecordedStatus(now))]_vars

\* ------------------------------------------------------------------ claims

\* every entry of the registry is a session object of the user it is filed under
SessionsKeyedByUser ==
  \A u \in Users :
    activeSessions[u] # NoSession =>
      /\ activeSessions[u] \in DOMAIN heap
      /\ heap[activeSessions[u]].userId = u

\* C1: when start_navigation succeeds the registry holds for that user one
\* session, a new object built from that request alone (its destination, its
\* location as start and current location, the time of the store, active, the
\* route just resolved); no field of the session the user had before survives,
\* and no other user's entry changes.
C1_StartReplacesSession ==
  [][\A h \in inflight :
       (/\ h.kind = "start"
        /\ lastStep'.op = "started"
        /\ lastStep'.id = h.id
        /\ lastStep'.emits[1].ev = "navigation_started")
       => /\ activeSessions'[h.user] \notin DOMAIN heap
          /\ \A u \in Users \ {h.user} : activeSessions'[u] = activeSessions[u]
          /\ SessionsKeyedByUser'
          /\ heap'[activeSessions'[h.user]].userId = h.user
          /\ heap'[activeSessions'[h.user]].destinationId = h.dest
          /\ heap'[activeSessions'[h.user]].startLocation = h.loc
          /\ heap'[activeSessions'[h.user]].currentLocation = h.loc
          /\ heap'[activeSessions'[h.user]].startTime = now
          /\ heap'[activeSessions'[h.user]].isActive
          /\ heap'[activeSessions'[h.user]].route \in
               CreateRouteFromCurrentLocation(h.loc, h.dest, customRoutes)
          /\ lastStep'.emits[1].snap = heap'[activeSessions'[h.user]]]_vars

\* a start has just replaced the session the user had
C1_Witness ==
  /\ lastStep.op = "started"
  /\ lastStep.prior # NoSession
  /\ activeSessions[lastStep.user] = lastStep.id
  /\ lastStep.prior # lastStep.id

\* C2: navigation_completed is emitted once per session, and once a
\* location_update less than 10 m from the destination has been handled the
\* session has been completed and the registry holds no session for the user.
C2_ArrivalCompletesOnce ==
  /\ \A i, j \in 1..Len(completedFor) : completedFor[i] = completedFor[j] => i = j
  /\ lastStep.op = "arrival" =>
       /\ activeSessions[lastStep.user] = NoSession
       /\ \E i \in 1..Len(completedFor) : completedFor[i] = lastStep.sess

\* C3: a location_update for a user with no session or a paused session emits
\* one NO_ACTIVE_SESSION error to the caller and nothing else: no session
\* changes, no handler is left waiting for a lookup or the resolver.
C3_UpdateWithoutActiveSession ==
  [][\A s \in Sockets :
       (/\ lastStep'.op = "update"
        /\ lastStep'.client = s
        /\ IF activeSessions[SocketUser(s)] = NoSession THEN TRUE
           ELSE ~heap[activeSessions[SocketUser(s)]].isActive)
       => /\ lastStep'.emits =
               <<Ev(s, "navigation_error:NO_ACTIVE_SESSION", NoSession, heap)>>
          /\ ~lastStep'.resolver
          /\ heap' = heap
          /\ activeSessions' = activeSessions
          /\ inflight' = inflight
          /\ sessionHistory' = sessionHistory]_vars

\* a location_update has just been refused for a paused session
C3_Witness ==
  /\ lastStep.op = "update"
  /\ Len(lastStep.emits) = 1
  /\ lastStep.prior # NoSession
  /\ lastStep.prior \in DOMAIN heap
  /\ ~heap[lastStep.prior].isActive

\* C4: when handleLocationUpdate gets past the arrival check, a location whose
\* least distance to the route points is at most 50 m gives no route_deviation
\* and no resolver call, a greater one gives one route_deviation and one
\* resolver call.
C4_DeviationThreshold ==
  [][\A h \in inflight :
       (/\ h.kind = "update"
        /\ h.pc = "progress"
        /\ lastStep'.op = "progress"
        /\ lastStep'.id = h.id)
       => IF MinDistance(heap[h.sess].route.puntos, h.loc) > 50
          THEN /\ Cardinality({i \in DOMAIN lastStep'.emits :
                                 lastStep'.emits[i].ev = "route_deviation"}) = 1
               /\ lastStep'.resolver
          ELSE /\ \A i \in DOMAIN lastStep'.emits :
                    lastStep'.emits[i].ev # "route_deviation"
               /\ ~lastStep'.resolver]_vars

C6_HistoryEntryPerTermination == Len(sessionHistory) = sessionsEnded

\* C7: handlers of one user are serialized; in particular no location_update
\* of a user is processed while a recalculation that a deviation of the same
\* user started is waiting for the resolver.
C7_PerUserSerialized ==
  \A h \in inflight :
    ~(/\ h.kind = "update"
      /\ h.pc = "recalc"
      /\ lastStep.op = "update"
      /\ lastStep.user = h.user
      /\ lastStep.id # h.id
      /\ lastStep.emits = <<>>)

\* C8: while no handler of the user is in flight the current location of the
\* user's session is the location of the last message accepted for it.
C8_CurrentLocationIsLatest ==
  \A u \in Users :
    (activeSessions[u] # NoSession /\ ~\E h \in inflight : h.user = u)
      => heap[activeSessions[u]].currentLocation = heap[activeSessions[u]].lastLoc

\* C9: a recalculation that ends when the registry no longer holds the session
\* it was started for emits no route_recalculated.
C9_StaleRecalculationDiscarded ==
  (lastStep.op = "recalculated" /\ lastStep.prior # lastStep.sess)
    => \A i \in DOMAIN lastStep.emits : lastStep.emits[i].ev # "route_recalculated"

\* C10: when the nearest place within 100 m of the origin is less than 50 m
\* away and the store holds a custom route from it to the destination, the
\* resolver answers with that route: the origin followed by its points, its
\* distance and its time, without a call of the route provider.
C10_ForwardCustomRouteUsed ==
  probe.done =>
    \A r \in customRoutes :
      (/\ FindNearestPlace(probe.origin) # <<>>
       /\ FindNearestPlace(probe.origin)[1].distancia < 50
       /\ r.origenId = FindNearestPlace(probe.origin)[1].id
       /\ r.destinoId = probe.destinationId)
      => probe.result =
           Navigation(probe.destinationId, "custom", <<probe.origin>> \o r.puntos,
                      r.distancia, r.tiempoEstimado)

\* C11: when the nearest place within 100 m of the origin is less than 50 m
\* away and the only custom route between it and the destination is stored
\* from the destination to that place, the resolver answers with that route
\* reversed: the origin followed by its points in reverse order, its distance
\* and its time, without a call of the route provider.
C11_ReversedCustomRouteUsed ==
  probe.done =>
    \A r \in customRoutes :
      (/\ FindNearestPlace(probe.origin) # <<>>
       /\ FindNearestPlace(probe.origin)[1].distancia < 50
       /\ r.origenId = probe.destinationId
       /\ r.destinoId = FindNearestPlace(probe.origin)[1].id
       /\ \A q \in customRoutes :
            (\/ q.origenId = r.origenId /\ q.destinoId = r.destinoId
             \/ q.origenId = r.destinoId /\ q.destinoId = r.origenId) => q = r)
      => probe.result =
           Navigation(probe.destinationId, "custom",
                      <<probe.origin>> \o Reverse(r.puntos),
                      r.distancia, r.tiempoEstimado)

\* the coordinate of the place with this id
PlaceCoordinateOf(id) ==
  LET p == Places[CHOOSE i \in 1..Len(Places) : Places[i].id = id]
  IN  [lat |-> p.latitud, lng |-> p.longitud]

\* C12: the resolver fails only when the destination is not a known place;
\* when the provider call fails the answer is the direct line: the origin and
\* the destination's coordinate, their direct distance d, and
\* ceil(d / 1000 * 12) minutes.
C12_ProviderFailureFallsBack ==
  probe.done =>
    /\ probe.result.status = "ok" <=>
         \E i \in 1..Len(Places) : Places[i].id = probe.destinationId
    /\ probe.result.status # "ok" => probe.result = NotFound(probe.destinationId)
    /\ probe.result.via = "direct" =>
         /\ probe.result.puntos =
              <<probe.origin, PlaceCoordinateOf(probe.destinationId)>>
         /\ probe.result.distancia =
              Abs(PlaceCoordinateOf(probe.destinationId).lat - probe.origin.lat)
         /\ probe.result.tiempoEstimado =
              (probe.result.distancia * 12 + 999) \div 1000

\* the provider failed for a walk of 200 m: the direct line takes 3 minutes
C12_Witness ==
  /\ probe.done
  /\ probe.result.via = "direct"
  /\ probe.result.distancia = 200
  /\ probe.result.tiempoEstimado = 3
  /\ Len(probe.result.puntos) = 2

\* C13: a start_navigation whose destination is not a known place emits one
\* navigation_error to the caller and leaves the registry and every session
\* object as they were: no session is created, and the session the user had
\* keeps its destination, route, current location and status.
C13_UnresolvedStartKeepsSession ==
  [][\A h \in inflight :
       (/\ h.kind = "start"
        /\ lastStep'.op = "started"
        /\ lastStep'.id = h.id
        /\ h.dest \notin PlaceIds)
       => /\ lastStep'.emits =
               <<Ev(h.client, "navigation_error:START_FAILED", NoSession, heap)>>
          /\ activeSessions' = activeSessions
          /\ heap' = heap]_vars

\* a start for an unknown destination has just failed for a user with a session
C13_Witness ==
  /\ lastStep.op = "started"
  /\ lastStep.emits[1].ev = "navigation_error:START_FAILED"
  /\ lastStep.prior # NoSession
  /\ activeSessions[lastStep.user] = lastStep.prior

\* C20: a recalculation ends in one of two ways.  Either the resolver
\* answered with a route: route_recalculated is emitted and the session object
\* holds that route.  Or the resolver failed: RECALCULATION_FAILED is emitted
\* to the socket the recalculation took, the registry and every session object
\* (route and status included) stay as they were.  In both cases a
\* recalculation that a location_update started is followed, in the same
\* run of the handler, by that update's navigation_update.
C20_FailedRecalculationKeepsRoute ==
  [][\A h \in inflight :
       (lastStep'.op = "recalculated" /\ lastStep'.id = h.id)
       => /\ activeSessions' = activeSessions
          /\ lastStep'.emits[1].to = h.sock2
          /\ IF lastStep'.emits[1].ev = "route_recalculated"
             THEN h.sess2 \in DOMAIN heap' =>
                    /\ heap'[h.sess2].route.status = "ok"
                    /\ heap'[h.sess2].route \in
                         CreateRouteFromCurrentLocation(
                           h.loc, heap[h.sess2].destinationId, customRoutes)
             ELSE /\ lastStep'.emits[1].ev = "navigation_error:RECALCULATION_FAILED"
                  /\ \A sid \in DOMAIN heap' : heap'[sid] = heap[sid]
                  /\ activeSessions[h.user] # NoSession =>
                       activeSessions[h.user] \in DOMAIN heap'
          /\ IF h.kind = "update"
             THEN /\ Len(lastStep'.emits) = 2
                  /\ lastStep'.emits[2].ev = "navigation_update"
                  /\ lastStep'.emits[2].to = h.client
             ELSE Len(lastStep'.emits) = 1]_vars

\* the recalculation a deviating location_update started has just failed, the
\* session is still registered with its route, and navigation_update followed
C20_Witness ==
  /\ lastStep.op = "recalculated"
  /\ Len(lastStep.emits) = 2
  /\ lastStep.emits[1].ev = "navigation_error:RECALCULATION_FAILED"
  /\ lastStep.emits[2].ev = "navigation_update"
  /\ activeSessions[lastStep.user] = lastStep.sess
  /\ lastStep.sess # NoSession
  /\ heap[lastStep.sess].route.status = "ok"

\* C19: when a location_update is less than 10 m from the destination its
\* handler ends with the arrival: that run emits nothing but the
\* navigation_completed of handleArrival (no route_deviation,
\* route_recalculated, navigation_update or nearby_point), calls no resolver,
\* leaves no part of the handler waiting, and with a registered socket the
\* session is removed from the registry.
C19_ArrivalStopsPipeline ==
  [][\A h \in inflight :
       (/\ h.kind = "update"
        /\ h.pc = "progress"
        /\ lastStep'.id = h.id
        /\ lastStep'.op \in {"arrival", "progress"}
        /\ Abs(PlaceCoordinateOf(h.dest).lat - h.loc.lat) < 10)
       => /\ \A i \in DOMAIN lastStep'.emits :
               lastStep'.emits[i].ev = "navigation_completed"
          /\ Len(lastStep'.emits) <= 1
          /\ ~lastStep'.resolver
          /\ \A g \in inflight' : g.id # h.id
          /\ clientSockets[h.user] # NoSocket => activeSessions'[h.user] = NoSession]_vars

\* an arrival has just been handled for a user with a registered socket
C19_Witness ==
  /\ lastStep.op = "arrival"
  /\ Len(lastStep.emits) = 1
  /\ lastStep.emits[1].ev = "navigation_completed"
  /\ activeSessions[lastStep.user] = NoSession
  /\ \A g \in inflight : g.id # lastStep.id

\* C16: a step of a handler of user A (connect, disconnect or any message,
\* accepted or refused) leaves for every other user B the registry entry, the
\* session object and the registered socket as they were, and emits only to
\* sockets of A.
C16_OtherUsersUntouched ==
  [][\A A \in Users :
       lastStep'.user = A /\ lastStep'.op # "tick"
       => /\ \A i \in DOMAIN lastStep'.emits :
               /\ lastStep'.emits[i].to \in Sockets
               /\ SocketUser(lastStep'.emits[i].to) = A
          /\ \A B \in Users \ {A} :
               /\ activeSessions'[B] = activeSessions[B]
               /\ clientSockets'[B] = clientSockets[B]
               /\ activeSessions[B] # NoSession =>
                    /\ activeSessions[B] \in DOMAIN heap'
                    /\ heap'[activeSessions[B]] = heap[activeSessions[B]]]_vars

\* a message of one user has just been refused with an error while another
\* user has a session and a registered socket
C16_Witness ==
  \E A \in Users, B \in Users :
    /\ A # B
    /\ lastStep.user = A
    /\ Len(lastStep.emits) = 1
    /\ lastStep.emits[1].ev = "navigation_error:NO_ACTIVE_SESSION"
    /\ activeSessions[B] # NoSession
    /\ clientSockets[B] # NoSocket

\* C17: after any number of recordSessionEnd calls the history holds at most
\* 1000 entries, and they are the last ones recorded, in the order they were
\* recorded (here the call at time t records an entry with endTime t, and now
\* counts the calls).
C17_HistoryKeepsLatest ==
  /\ Len(sessionHistory) <= 1000
  /\ Len(sessionHistory) = (IF now < 1000 THEN now ELSE 1000)
  /\ \A k \in 1..Len(sessionHistory) :
       sessionHistory[k].endTime = now - Len(sessionHistory) + k - 1

\* more than 1000 ends were recorded, some of them in this behaviour: the
\* history is full and the oldest entries are gone
C17_Witness ==
  /\ now > 1000
  /\ nEvents > 0
  /\ Len(sessionHistory) = 1000
  /\ sessionHistory[1].endTime = now - 1000
  /\ sessionHistory[1000].endTime = now - 1

\* C14: a start_navigation, location_update or recalculate_route whose
\* coordinates are missing (0 stands for none) or out of range (a latitude
\* more than 10 000 km of arc, 90 degrees, from the equator) is rejected
\* before anything changes: no handler goes on with such a location and no
\* session ever holds one as its current location.
C14_InvalidCoordinatesRejected ==
  /\ \A h \in inflight :
       h.loc.lat # 0 /\ h.loc.lng # 0 /\ Abs(h.loc.lat) <= 10000000
  /\ \A sid \in DOMAIN heap :
       /\ heap[sid].currentLocation.lat # 0
       /\ heap[sid].currentLocation.lng # 0
       /\ Abs(heap[sid].currentLocation.lat) <= 10000000

\* C18: notifyUser emits the event on the socket registered for the user and
\* on no other; without a registered socket it emits nothing.  It changes
\* neither the registries nor a session nor a waiting handler, and no later
\* step of another handler (a reconnection included) emits the event.
C18_NotifyOnlyRegisteredSocket ==
  [][IF lastStep'.op = "notify"
     THEN /\ IF clientSockets[lastStep'.user] = NoSocket
             THEN lastStep'.emits = <<>>
             ELSE /\ Len(lastStep'.emits) = 1
                  /\ lastStep'.emits[1].to = clientSockets[lastStep'.user]
                  /\ lastStep'.emits[1].ev = "notification"
          /\ UNCHANGED <<activeSessions, heap, clientSockets, open, inflight,
                         sessionHistory>>
     ELSE \A i \in DOMAIN lastStep'.emits : lastStep'.emits[i].ev # "notification"]_vars

\* a notification has just been dropped for a user without a registered
\* socket, who still has an open socket
C18_Witness ==
  /\ lastStep.op = "notify"
  /\ lastStep.emits = <<>>
  /\ clientSockets[lastStep.user] = NoSocket
  /\ \E s \in Sockets : open[s] /\ SocketUser(s) = lastStep.user

\* C15: every start_navigation or location_update handler that begins
\* eventually finishes, even when a call it awaits never answers.
C15_HandlersFinish ==
  \A id \in 1..MaxEvents :
    (\E h \in inflight : h.id = id /\ h.kind \in {"start", "update"})
      ~> ~(\E h \in inflight : h.id = id)

\* C21: a location_update that is not an arrival emits its events in the
\* order route_deviation, route_recalculated (or RECALCULATION_FAILED),
\* navigation_update, nearby_point; the step that emits navigation_update emits
\* exactly one and is the last before the proximity step, and after a
\* route_recalculated the session snapshot of the navigation_update carries
\* the route that recalculation produced.
C21_UpdateEventOrder ==
  [][\A h \in inflight :
       (h.kind = "update" /\ lastStep'.id = h.id /\ lastStep'.op # "arrival"
          /\ lastStep'.op # "hang")
       => LET evs == [i \in DOMAIN lastStep'.emits |-> lastStep'.emits[i].ev]
          IN  /\ h.pc = "progress" =>
                   \/ evs = <<"navigation_update">>
                   \/ evs = <<"route_deviation", "navigation_update">>
                   \/ /\ evs = <<"route_deviation">>
                      /\ \E g \in inflight' : g.id = h.id /\ g.pc = "recalc"
              /\ h.pc = "recalc" =>
                   /\ evs \in {<<"route_recalculated", "navigation_update">>,
                               <<"navigation_error:RECALCULATION_FAILED",
                                 "navigation_update">>}
                   /\ evs[1] = "route_recalculated" =>
                        lastStep'.emits[2].snap.route = lastStep'.emits[1].snap.route
              /\ h.pc = "nearby" => evs \in {<<>>, <<"nearby_point">>}
              /\ (\E i \in DOMAIN evs : evs[i] = "navigation_update") =>
                   \A g \in inflight' : g.id = h.id => g.pc = "nearby"]_vars

\* C22: pause_navigation and resume_navigation set the status of the user's
\* session and nothing else.  Without a session nothing changes and nothing
\* is emitted.  With one, the registries, the waiting handlers and every other
\* field of every session stay as they were, the caller gets
\* navigation_paused / navigation_resumed, and a message that asks for the
\* status the session already has leaves the state as it was.
C22_PauseResumeOnlyStatus ==
  [][lastStep'.op \in {"pause", "resume"} =>
       LET sid == activeSessions[lastStep'.user]
       IN  /\ UNCHANGED <<activeSessions, clientSockets, open, inflight,
                          sessionHistory, completedFor, sessionsEnded>>
           /\ IF sid = NoSession
              THEN heap' = heap /\ lastStep'.emits = <<>>
              ELSE /\ DOMAIN heap' = DOMAIN heap
                   /\ \A x \in DOMAIN heap : x # sid => heap'[x] = heap[x]
                   /\ heap'[sid].isActive = (lastStep'.op = "resume")
                   /\ heap'[sid].destinationId = heap[sid].destinationId
                   /\ heap'[sid].startLocation = heap[sid].startLocation
                   /\ heap'[sid].currentLocation = heap[sid].currentLocation
                   /\ heap'[sid].route = heap[sid].route
                   /\ heap'[sid].startTime = heap[sid].startTime
                   /\ heap'[sid].userId = heap[sid].userId
                   /\ heap[sid].isActive = (lastStep'.op = "resume") => heap' = heap
                   /\ Len(lastStep'.emits) = 1
                   /\ lastStep'.emits[1].to = lastStep'.client
                   /\ lastStep'.emits[1].ev =
                        (IF lastStep'.op = "pause" THEN "navigation_paused"
                         ELSE "navigation_resumed")]_vars

\* a pause has just been handled for a session that an update had moved
C22_Witness ==
  /\ lastStep.op = "pause"
  /\ lastStep.prior # NoSession
  /\ lastStep.prior \in DOMAIN heap
  /\ ~heap[lastStep.prior].isActive
  /\ heap[lastStep.prior].currentLocation # heap[lastStep.prior].startLocation

\* C23: a paused session does not advance: a step that finds a session
\* paused and leaves it paused (any step between the pause and the next
\* resume, whether of a new message or of a handler that began before the
\* pause) changes neither its currentLocation nor its route.
C23_PausedSessionDoesNotAdvance ==
  [][\A sid \in (DOMAIN heap) \cap (DOMAIN heap') :
       (~heap[sid].isActive /\ ~heap'[sid].isActive)
       => /\ heap'[sid].currentLocation = heap[sid].currentLocation
          /\ heap'[sid].route = heap[sid].route]_vars

\* C24: the proximity step of a location_update emits at most one event, a
\* nearby_point for a place that is within 30 m of the update's location and
\* at least as near as every other known place; it emits nothing when no
\* place is within 30 m.  Whether the lookup answers or fails, the step emits
\* no navigation_error and leaves the registry and every session as they were.
C24_NearbyPointIsClosest ==
  [][\A h \in inflight :
       (h.kind = "update" /\ h.pc = "nearby" /\ lastStep'.op = "nearby"
          /\ lastStep'.id = h.id)
       => /\ Len(lastStep'.emits) <= 1
          /\ \A i \in DOMAIN lastStep'.emits :
               /\ lastStep'.emits[i].ev = "nearby_point"
               /\ lastStep'.emits[i].place \in PlaceIds
               /\ Abs(PlaceCoordinateOf(lastStep'.emits[i].place).lat - h.loc.lat) <= 30
               /\ \A q \in PlaceIds :
                    Abs(PlaceCoordinateOf(lastStep'.emits[i].place).lat - h.loc.lat)
                      <= Abs(PlaceCoordinateOf(q).lat - h.loc.lat)
          /\ (\A q \in PlaceIds : Abs(PlaceCoordinateOf(q).lat - h.loc.lat) > 30)
               => lastStep'.emits = <<>>
          /\ activeSessions' = activeSessions
          /\ \A sid \in DOMAIN heap' : heap'[sid] = heap[sid]
          /\ \A u \in Users : activeSessions[u] # NoSession =>
               activeSessions[u] \in DOMAIN heap']_vars

\* nearby_point has just been emitted for p3, 20 m away and second in the
\* cache, while p1 is 30 m away
C24_Witness ==
  /\ lastStep.op = "nearby"
  /\ Len(lastStep.emits) = 1
  /\ lastStep.emits[1].ev = "nearby_point"
  /\ lastStep.emits[1].place = "p3"

\* C25: the instructions of the direct-line fallback name the direction of
\* the destination as seen from the origin, as calculateDirection gives it.
C25_FallbackNamesDirection ==
  (probe.done /\ probe.result.via = "direct")
    => probe.result.direction =
         CalculateDirection(probe.origin, PlaceCoordinateOf(probe.destinationId))

C27_RouteReplacedWholesale ==
  [][\A sid \in (DOMAIN heap) \cap (DOMAIN heap') :
       /\ heap'[sid].route # heap[sid].route =>
            /\ lastStep'.op = "recalculated"
            /\ lastStep'.emits[1].ev = "route_recalculated"
            /\ \E h \in inflight :
                 /\ h.id = lastStep'.id
                 /\ h.sess2 = sid
                 /\ heap'[sid].route \in
                      CreateRouteFromCurrentLocation(h.loc, heap[sid].destinationId,
                                                     customRoutes)
       /\ lastStep'.op \in {"update", "progress", "nearby"} =>
            /\ heap'[sid].route = heap[sid].route
            /\ heap'[sid].destinationId = heap[sid].destinationId
            /\ heap'[sid].startLocation = heap[sid].startLocation
            /\ heap'[sid].startTime = heap[sid].startTime
            /\ heap'[sid].isActive = heap[sid].isActive
            /\ heap'[sid].userId = heap[sid].userId
            /\ lastStep'.op # "update" =>
                 heap'[sid].currentLocation = heap[sid].currentLocation]_vars

\* an update on the route has just reported progress: the session has moved
\* and still holds the custom route it started with
C27_Witness ==
  /\ lastStep.op = "progress"
  /\ Len(lastStep.emits) = 1
  /\ lastStep.emits[1].ev = "navigation_update"
  /\ lastStep.emits[1].snap.currentLocation # lastStep.emits[1].snap.startLocation
  /\ lastStep.emits[1].snap.route.via = "custom"

\* C28: the arrival of a location_update that began on session S removes
\* only S: when the registry held another session S' of the user at the time
\* of the arrival (a start_navigation replaced S while the update awaited the
\* place lookup), S' is still registered after it.
C28_ArrivalRemovesOnlyItsSession ==
  (/\ lastStep.op = "arrival"
   /\ lastStep.prior # NoSession
   /\ lastStep.prior # lastStep.sess)
  => activeSessions[lastStep.user] = lastStep.prior

\* C29: while a user has an open authenticated connection the connection
\* registry maps the user to an open connection of theirs.
C29_RegistryFollowsLiveConnection ==
  \A u \in Users :
    (\E s \in Sockets : open[s] /\ SocketUser(s) = u)
      => /\ clientSockets[u] # NoSocket
         /\ open[clientSockets[u]]
         /\ SocketUser(clientSockets[u]) = u

\* C30: an accepted connection registers the socket and emits to it
\* connected first, then session_restored exactly when the registry holds a
\* session for the user, carrying that session; it creates, changes and
\* removes no session.  A refused connection emits nothing, is never
\* registered or open, and changes no registry and no session.
C30_ConnectRestoresSession ==
  [][/\ lastStep'.op = "connect" =>
          LET s == lastStep'.client
              u == lastStep'.user
          IN  /\ lastStep'.emits[1].ev = "connected"
              /\ lastStep'.emits[1].to = s
              /\ IF activeSessions[u] # NoSession
                 THEN /\ Len(lastStep'.emits) = 2
                      /\ lastStep'.emits[2].ev = "session_restored"
                      /\ lastStep'.emits[2].to = s
                      /\ lastStep'.emits[2].snap = heap[activeSessions[u]]
                 ELSE Len(lastStep'.emits) = 1
              /\ clientSockets'[u] = s
              /\ UNCHANGED <<activeSessions, heap, inflight, sessionHistory>>
     /\ lastStep'.op = "reject" =>
          /\ lastStep'.emits = <<>>
          /\ lastStep'.client \notin Sockets
          /\ \A u \in Users : clientSockets'[u] # lastStep'.client
          /\ UNCHANGED <<activeSessions, heap, clientSockets, open, inflight,
                         sessionHistory>>]_vars

\* a second socket of a user with a session has just connected and got the
\* session back
C30_Witness ==
  /\ lastStep.op = "connect"
  /\ Len(lastStep.emits) = 2
  /\ lastStep.emits[2].ev = "session_restored"
  /\ lastStep.emits[2].snap.userId = lastStep.user
  /\ activeSessions[lastStep.user] = lastStep.prior
  /\ lastStep.prior # NoSession

====
